---- MODULE Spec2Model ----
(***************************************************************************)
(* A model of the SOCKSv5 proxy: the protocol functions of handlers.py,    *)
(* the credential check of auth.py, the per-connection handler and the     *)
(* accept loop of server.py, and the relay loop of socks5_server.py.       *)
(*                                                                         *)
(* Python values: bytes are sequences of integers 0..255, a str is the     *)
(* sequence of its code points, None is the value None, a tuple is a       *)
(* sequence.  A socket call that can raise takes its outcome as an input:  *)
(* recv yields an rx record (the bytes, or err), sendall succeeds or       *)
(* raises according to txOk.                                               *)
(***************************************************************************)
EXTENDS Integers, Sequences, FiniteSets, TLC

VARIABLES
    users,        \* AuthenticationManager.users: username -> password
    authFile,     \* the file at AuthenticationManager.auth_file_path
    pc,           \* position of handle_client, or of the function harness
    rxGreeting,   \* what recv returned to perform_handshake
    hsResult,     \* the value perform_handshake returned
    rxRequest,    \* what recv returned to parse_request
    parsed,       \* the outcome of parse_request
    sent,         \* the sendall calls on the client socket, in order
    reads,        \* the number of recv calls on the client socket
    connectState, \* the outbound connect: none, connected, gaierror, refused, error
    clientCloses, \* the number of client_socket.close() calls
    remoteCloses, \* the number of remote_socket.close() calls
    relayed,      \* the number of chunks relay_data read
    boundPort,    \* the local port of the outbound socket, None before connect
    fromClient,   \* relay_data: the bytes read from client_socket
    fromRemote,   \* relay_data: the bytes read from remote_socket
    toRemote,     \* relay_data: the bytes written to remote_socket
    toClient,     \* relay_data: the bytes written to client_socket
    relayEnd,     \* relay_data: none while it runs, then timeout, eof or error
    log,          \* the socket operations of the session, in order
    escaped,      \* whether an exception left handle_client
    threads,      \* the listener's handler threads: the session of each
    accepting,    \* whether the accept loop of Socks5Server.start runs
    serverSocket, \* self.server_socket: none (None), listening or closed
    stops,        \* the calls of Socks5Server.stop, counted up to MaxStops
    process,      \* the interpreter: running, or exited
    bare,         \* the session of socks5_server.py's server on the same client
    running,      \* the thread that took the last step, 0 for the listener
    calls,        \* the functions handle_client has called, in order
    call,         \* function harness: the function applied and its input
    ret           \* function harness: what the function returned

vars == <<users, authFile, pc, rxGreeting, hsResult, rxRequest, parsed, sent, reads,
          connectState, clientCloses, remoteCloses, relayed, boundPort, fromClient,
          fromRemote, toRemote, toClient, relayEnd, log, escaped, threads, accepting,
          serverSocket, stops, process, bare, running, calls, call, ret>>

---------------------------------------------------------------------------
(* Bounds of the model. *)

\* the longest method list a generated greeting carries
MaxMethods == 3
\* the longest domain name (in characters) a generated request carries
MaxDomainLen == 2
\* the most chunks one relay reads
MaxRelay == 2
\* the most connections the listener accepts
MaxSessions == 2
\* the most calls of stop() that are counted
MaxStops == 2

---------------------------------------------------------------------------
(* Program constants: protocol.py and config.py. *)

SOCKS_VERSION == 5
NO_AUTH == 0
USERNAME_PASSWORD == 2
NO_ACCEPTABLE_METHODS == 255
AUTH_SUCCESS == 0
AUTH_FAILURE == 1
CMD_CONNECT == 1
CMD_BIND == 2
CMD_UDP_ASSOCIATE == 3
ATYP_IPV4 == 1
ATYP_DOMAIN == 3
ATYP_IPV6 == 4
REP_SUCCESS == 0
REP_GENERAL_FAILURE == 1
REP_HOST_UNREACHABLE == 4
REP_CONNECTION_REFUSED == 5
REP_COMMAND_NOT_SUPPORTED == 7
REP_ADDRESS_TYPE_NOT_SUPPORTED == 8
RESERVED == 0
SELECT_TIMEOUT == 30
HANDSHAKE_BUFFER_SIZE == 262
\* the sub-negotiation version byte of RFC 1929, written 0x01 in handlers.py
AUTH_VERSION == 1
\* Python's None, as returned for "no method selected"
None == -1

---------------------------------------------------------------------------
(* Python and library primitives. *)

Min(a, b) == IF a < b THEN a ELSE b

\* s[i:j] on bytes, lists and str: 0-based, half-open, clamped to the length
PySlice(s, i, j) == SubSeq(s, i + 1, Min(j, Len(s)))

\* client_socket.recv(HANDSHAKE_BUFFER_SIZE): at most that many bytes
Recv(frame) == PySlice(frame, 0, HANDSHAKE_BUFFER_SIZE)

\* struct.pack('!H', n): 16 bits, big-endian
PackH(n) == <<n \div 256, n % 256>>

\* struct.unpack('<H', b)[0]: the two bytes in the other order
UnpackH_little(b) == b[2] * 256 + b[1]

\* struct.unpack('!H', b)[0]: defined on exactly two bytes
UnpackH(b) == b[1] * 256 + b[2]

\* struct.unpack('!H', b) raises struct.error on any other length
UnpackHRaises(b) == Len(b) # 2

RECURSIVE Dec(_)
\* '%d' % n: the decimal digits of n as a str
Dec(n) == IF n < 10 THEN <<48 + n>> ELSE Dec(n \div 10) \o <<48 + (n % 10)>>

HexDigit(d) == IF d < 10 THEN 48 + d ELSE 87 + d

RECURSIVE Hex(_)
\* '%x' % n: the lower-case hexadecimal digits of n as a str
Hex(n) == IF n < 16 THEN <<HexDigit(n)>> ELSE Hex(n \div 16) \o <<HexDigit(n % 16)>>

\* socket.inet_ntoa(b): dotted-quad text of four bytes
inet_ntoa(b) ==
    Dec(b[1]) \o <<46>> \o Dec(b[2]) \o <<46>> \o Dec(b[3]) \o <<46>> \o Dec(b[4])

\* the eight 16-bit words of sixteen bytes
Words(b) == [i \in 1..8 |-> b[2 * i - 1] * 256 + b[2 * i]]

\* the length of the run of zero words of w that starts at word i
RECURSIVE ZeroRun(_, _)
ZeroRun(w, i) == IF i > 8 \/ w[i] # 0 THEN 0 ELSE 1 + ZeroRun(w, i + 1)

\* the longest run of at least two zero words, the first one on a tie:
\* <<base, len>>, or <<0, 0>> when there is none
BestRun(w) ==
    LET len == [i \in 1..8 |-> ZeroRun(w, i)]
        best == CHOOSE i \in 1..8 :
                    /\ \A j \in 1..8 : len[j] <= len[i]
                    /\ \A j \in 1..(i - 1) : len[j] < len[i]
    IN  IF len[best] >= 2 THEN <<best, len[best]>> ELSE <<0, 0>>

\* the text inet_ntop writes for words i..8 (glibc's inet_ntop6 loop)
RECURSIVE Ntop6From(_, _, _, _)
Ntop6From(b, w, run, i) ==
    IF i > 8 THEN <<>>
    ELSE IF run[1] # 0 /\ i >= run[1] /\ i < run[1] + run[2]
         THEN (IF i = run[1] THEN <<58>> ELSE <<>>) \o Ntop6From(b, w, run, i + 1)
    ELSE (IF i # 1 THEN <<58>> ELSE <<>>) \o
         (IF i = 7 /\ run[1] = 1
                /\ (run[2] = 6 \/ (run[2] = 5 /\ w[6] = 65535))
             THEN inet_ntoa(SubSeq(b, 13, 16))
             ELSE Hex(w[i]) \o Ntop6From(b, w, run, i + 1))

\* socket.inet_ntop(AF_INET6, b): the text form with the longest zero run
\* written "::" and an IPv4-mapped or IPv4-compatible tail written dotted
inet_ntop(b) ==
    LET w == Words(b)
        run == BestRun(w)
    IN  Ntop6From(b, w, run, 1) \o
        (IF run[1] # 0 /\ run[1] + run[2] = 9 THEN <<58>> ELSE <<>>)

\* a UTF-8 lead byte of a two-byte sequence, and a continuation byte
IsLead2(x) == x >= 194 /\ x <= 223
IsCont(x) == x >= 128 /\ x <= 191

\* whether bytes.decode('utf-8') accepts b (one- and two-byte sequences):
\* every byte is ASCII, a lead byte with its continuation, or the
\* continuation of the lead byte before it
Utf8Valid(b) ==
    \A i \in 1..Len(b) :
        \/ b[i] < 128
        \/ IsLead2(b[i]) /\ i < Len(b) /\ IsCont(b[i + 1])
        \/ IsCont(b[i]) /\ i > 1 /\ IsLead2(b[i - 1])

\* what the decoder yields at byte i: the character that starts there, or
\* nothing (a continuation byte, or a byte that starts no valid sequence)
Utf8At(b, i) ==
    IF b[i] < 128 THEN <<b[i]>>
    ELSE IF IsLead2(b[i]) /\ i < Len(b) /\ IsCont(b[i + 1])
         THEN <<(b[i] - 192) * 64 + (b[i + 1] - 128)>>
    ELSE <<>>

RECURSIVE Utf8DecodeRange(_, _, _)
Utf8DecodeRange(b, lo, hi) ==
    IF lo > hi THEN <<>>
    ELSE IF lo = hi THEN Utf8At(b, lo)
    ELSE LET mid == (lo + hi) \div 2
         IN  Utf8DecodeRange(b, lo, mid) \o Utf8DecodeRange(b, mid + 1, hi)

\* bytes.decode('utf-8', errors='ignore'): the code points, with each byte
\* that starts no valid sequence dropped; equal to the strict decoding
\* wherever Utf8Valid holds
Utf8Decode(b) == Utf8DecodeRange(b, 1, Len(b))

---------------------------------------------------------------------------
(* The outcomes of socket calls. *)

\* recv returned these bytes (b'' when the peer has closed)
RxData(frame) == [err |-> FALSE, data |-> Recv(frame)]

\* recv raised (connection reset, ...)
RxError == [err |-> TRUE, data |-> <<>>]

\* recv raised socket.timeout: the socket's timeout ran out with nothing
\* received
RxTimeout == [err |-> TRUE, data |-> <<>>, timeout |-> TRUE]

\* one client_socket.sendall(bytes) call: ok is FALSE when it raised
Tx(bytes, txOk) == [bytes |-> bytes, ok |-> txOk]

---------------------------------------------------------------------------
(* auth.py: AuthenticationManager. *)

\* the empty users dict
NoUsers == [u \in {} |-> <<>>]

\* no auth_file_path was given: nothing is loaded, nothing saved
NoFile == [path |-> FALSE, intact |-> TRUE, users |-> NoUsers]

\* what `with open(self.auth_file_path, 'w') as f: json.dump(self.users, f)`
\* does to the file: the users written; open raised and the file is as it
\* was; or the file was truncated and the write raised
save(file, usersMap, how) ==
    IF how = "saved" THEN [path |-> TRUE, intact |-> TRUE, users |-> usersMap]
    ELSE IF how = "open_failed" THEN file
    ELSE [path |-> TRUE, intact |-> FALSE, users |-> NoUsers]

\* del self.users[username]
del_user(usersMap, username) ==
    [u \in DOMAIN usersMap \ {username} |-> usersMap[u]]

\* self.users[username] = password
set_user(usersMap, username, password) ==
    [u \in DOMAIN usersMap \cup {username} |->
        IF u = username THEN password ELSE usersMap[u]]

\* AuthenticationManager.add_user: ret the bool returned, users and file
\* what it leaves
add_user(usersMap, file, username, password, how) ==
    IF username = <<>> \/ password = <<>>
    THEN [ret |-> FALSE, users |-> usersMap, file |-> file]
    ELSE IF username \in DOMAIN usersMap
    THEN [ret |-> FALSE, users |-> usersMap, file |-> file]
    ELSE LET added == set_user(usersMap, username, password)
         IN  IF ~file.path THEN [ret |-> TRUE, users |-> added, file |-> file]
             ELSE IF how = "saved"
             THEN [ret |-> TRUE, users |-> added, file |-> save(file, added, how)]
             ELSE [ret |-> FALSE, users |-> del_user(added, username),
                   file |-> save(file, added, how)]

\* AuthenticationManager.remove_user
remove_user(usersMap, file, username, how) ==
    IF username \notin DOMAIN usersMap
    THEN [ret |-> FALSE, users |-> usersMap, file |-> file]
    ELSE LET removed == del_user(usersMap, username)
         IN  IF ~file.path THEN [ret |-> TRUE, users |-> removed, file |-> file]
             ELSE IF how = "saved"
             THEN [ret |-> TRUE, users |-> removed, file |-> save(file, removed, how)]
             ELSE [ret |-> FALSE, users |-> removed, file |-> save(file, removed, how)]

\* AuthenticationManager.has_users
has_users(usersMap) == Cardinality(DOMAIN usersMap) > 0

\* authenticate without the password comparison
authenticate_any_password(usersMap, username, password) ==
    IF DOMAIN usersMap = {} THEN TRUE
    ELSE IF username \notin DOMAIN usersMap THEN FALSE
    ELSE TRUE

\* AuthenticationManager.authenticate
authenticate(usersMap, username, password) ==
    IF DOMAIN usersMap = {} THEN TRUE
    ELSE IF username \notin DOMAIN usersMap THEN FALSE
    ELSE IF usersMap[username] # password THEN FALSE
    ELSE TRUE

---------------------------------------------------------------------------
(* handlers.py: perform_handshake. *)

\* x in a Python list
InList(x, list) == \E i \in 1..Len(list) : list[i] = x

RECURSIVE InsertReverse(_, _)
InsertReverse(x, s) ==
    IF s = <<>> THEN <<x>>
    ELSE IF x >= s[1] THEN <<x>> \o s
    ELSE <<s[1]>> \o InsertReverse(x, Tail(s))

RECURSIVE InsertForward(_, _)
InsertForward(x, s) ==
    IF s = <<>> THEN <<x>>
    ELSE IF x <= s[1] THEN <<x>> \o s
    ELSE <<s[1]>> \o InsertForward(x, Tail(s))

RECURSIVE sort_forward(_)
sort_forward(methods) ==
    IF methods = <<>> THEN <<>>
    ELSE InsertForward(methods[1], sort_forward(Tail(methods)))

RECURSIVE SortReverseRec(_)
SortReverseRec(methods) ==
    IF methods = <<>> THEN <<>>
    ELSE InsertReverse(methods[1], SortReverseRec(Tail(methods)))

\* methods.sort(reverse=True): the list in descending order
sort_reverse(methods) == SortReverseRec(methods)

\* an auth_manager argument: None, or an AuthenticationManager with its users
NoManager == [present |-> FALSE, users |-> NoUsers]
Manager(usersMap) == [present |-> TRUE, users |-> usersMap]

\* supported_methods = [NO_AUTH], plus USERNAME_PASSWORD when
\* auth_manager and auth_manager.has_users()
supported_methods(auth_manager) ==
    IF auth_manager.present /\ has_users(auth_manager.users)
    THEN <<NO_AUTH, USERNAME_PASSWORD>>
    ELSE <<NO_AUTH>>

\* for method in methods: if method in supported_methods: select it, break
RECURSIVE first_common(_, _)
first_common(methods, supported) ==
    IF methods = <<>> THEN None
    ELSE IF InList(methods[1], supported) THEN methods[1]
    ELSE first_common(Tail(methods), supported)

\* struct.pack('!BB', SOCKS_VERSION, method)
MethodSelection(method) == <<SOCKS_VERSION, method>>

\* perform_handshake(client_socket, auth_manager): ret is the tuple returned,
\* tx the sendall calls made
perform_handshake(rx, auth_manager, txOk) ==
    LET data == rx.data
        failed == [ret |-> <<FALSE, None>>, tx |-> <<>>]
    IN  IF rx.err THEN failed
        ELSE IF Len(data) < 3 THEN failed
        ELSE IF data[1] # SOCKS_VERSION THEN failed
        ELSE LET nmethods == data[2]
                 methods == sort_reverse(PySlice(data, 2, 2 + nmethods))
                 selected_method == first_common(methods, supported_methods(auth_manager))
             IN  IF selected_method = None
                 THEN [ret |-> <<FALSE, None>>,
                       tx |-> <<Tx(MethodSelection(NO_ACCEPTABLE_METHODS), txOk)>>]
                 ELSE [ret |-> IF txOk THEN <<TRUE, selected_method>>
                                        ELSE <<FALSE, None>>,
                       tx |-> <<Tx(MethodSelection(selected_method), txOk)>>]

---------------------------------------------------------------------------
(* handlers.py: authenticate_user_password. *)

\* bytes([0x01, status])
AuthResult(status) == <<AUTH_VERSION, status>>

\* authenticate_user_password(client_socket, auth_manager): ret is the bool
\* returned, tx the sendall calls made.  The except branch (recv or sendall
\* raised) sends the failure frame and swallows a second error.
authenticate_user_password(rx, usersMap, txOk) ==
    LET data == rx.data
        silent == [ret |-> FALSE, tx |-> <<>>]
        onError(before) ==
            [ret |-> FALSE, tx |-> before \o <<Tx(AuthResult(AUTH_FAILURE), txOk)>>]
    IN  IF rx.err THEN onError(<<>>)
        ELSE IF Len(data) < 3 THEN silent
        ELSE IF data[1] # AUTH_VERSION THEN silent
        ELSE LET ulen == data[2]
                 plen_start == 2 + ulen
             IN  IF Len(data) < 2 + ulen + 1 THEN silent
                 ELSE LET username == Utf8Decode(PySlice(data, 2, 2 + ulen))
                          plen == data[plen_start + 1]
                      IN  IF Len(data) < plen_start + 1 + plen THEN silent
                          ELSE LET password ==
                                       Utf8Decode(PySlice(data, plen_start + 1,
                                                          plen_start + 1 + plen))
                                   status == IF authenticate(usersMap, username, password)
                                             THEN AUTH_SUCCESS ELSE AUTH_FAILURE
                               IN  IF txOk
                                   THEN [ret |-> status = AUTH_SUCCESS,
                                         tx |-> <<Tx(AuthResult(status), TRUE)>>]
                                   ELSE onError(<<Tx(AuthResult(status), FALSE)>>)

---------------------------------------------------------------------------
(* handlers.py: send_reply and parse_request. *)

\* a reply of header and port only, the bound address left out
EncodeReply_no_address(rep_code, port) ==
    <<SOCKS_VERSION, rep_code, RESERVED, ATYP_IPV4>> \o PackH(port)

\* struct.pack('!BBBB', SOCKS_VERSION, rep_code, RESERVED, ATYP_IPV4)
\*   + socket.inet_aton('0.0.0.0') + struct.pack('!H', port)
EncodeReply(rep_code, port) ==
    <<SOCKS_VERSION, rep_code, RESERVED, ATYP_IPV4>> \o <<0, 0, 0, 0>> \o PackH(port)

\* send_reply(client_socket, rep_code): one sendall, its error swallowed
send_reply(rep_code, txOk) == <<Tx(EncodeReply(rep_code, 0), txOk)>>

\* parse_request raised; tx holds what it had sent before
RequestError(tx) ==
    [raised |-> TRUE, cmd |-> None, atyp |-> None, dst_addr |-> <<>>,
     dst_port |-> None, tx |-> tx]

\* parse_request returned (cmd, atyp, dst_addr, dst_port)
Request(cmd, atyp, dst_addr, dst_port) ==
    [raised |-> FALSE, cmd |-> cmd, atyp |-> atyp, dst_addr |-> dst_addr,
     dst_port |-> dst_port, tx |-> <<>>]

\* the else branch without its send_reply: raise only
unsupported_address_type_silent(txOk) == RequestError(<<>>)

\* the else branch of parse_request: send_reply(client_socket,
\* REP_ADDRESS_TYPE_NOT_SUPPORTED), then raise
unsupported_address_type(txOk) ==
    RequestError(send_reply(REP_ADDRESS_TYPE_NOT_SUPPORTED, txOk))

\* int.from_bytes(b, 'big'): any number of bytes
RECURSIVE FromBytes(_)
FromBytes(b) == IF b = <<>> THEN 0 ELSE FromBytes(SubSeq(b, 1, Len(b) - 1)) * 256 + b[Len(b)]

\* parse_request with every length check one byte short and the port read
\* from whatever bytes are there
parse_request_short(rx, txOk) ==
    LET data == rx.data
    IN  IF rx.err \/ Len(data) < 4 \/ data[1] # SOCKS_VERSION THEN RequestError(<<>>)
        ELSE IF data[4] = ATYP_IPV4
             THEN IF Len(data) < 9 THEN RequestError(<<>>)
                  ELSE Request(data[2], data[4], inet_ntoa(PySlice(data, 4, 8)),
                               FromBytes(PySlice(data, 8, 10)))
        ELSE IF data[4] = ATYP_DOMAIN
             THEN IF Len(data) < 5 \/ Len(data) < 5 + data[5] + 1
                        \/ ~Utf8Valid(PySlice(data, 5, 5 + data[5]))
                  THEN RequestError(<<>>)
                  ELSE Request(data[2], data[4], Utf8Decode(PySlice(data, 5, 5 + data[5])),
                               FromBytes(PySlice(data, 5 + data[5], 7 + data[5])))
        ELSE IF data[4] = ATYP_IPV6
             THEN IF Len(data) < 21 THEN RequestError(<<>>)
                  ELSE Request(data[2], data[4], inet_ntop(PySlice(data, 4, 20)),
                               FromBytes(PySlice(data, 20, 22)))
        ELSE unsupported_address_type(txOk)

\* parse_request(client_socket).  It raises when recv raises, on the explicit
\* checks, on data[4] of a 4-byte frame (IndexError), on a domain that is not
\* UTF-8 (UnicodeDecodeError) and on a port field that is not two bytes
\* (struct.error); before raising on an unknown address type it sends reply 8.
parse_request(rx, txOk) ==
    LET data == rx.data
    IN  IF rx.err THEN RequestError(<<>>)
        ELSE IF Len(data) < 4 THEN RequestError(<<>>)
        ELSE LET version == data[1]
                 cmd == data[2]
                 atyp == data[4]
             IN  IF version # SOCKS_VERSION THEN RequestError(<<>>)
                 ELSE IF atyp = ATYP_IPV4
                      THEN IF Len(data) < 10 THEN RequestError(<<>>)
                           ELSE IF UnpackHRaises(PySlice(data, 8, 10)) THEN RequestError(<<>>)
                           ELSE Request(cmd, atyp, inet_ntoa(PySlice(data, 4, 8)),
                                        UnpackH(PySlice(data, 8, 10)))
                 ELSE IF atyp = ATYP_DOMAIN
                      THEN IF Len(data) < 5 THEN RequestError(<<>>)
                           ELSE LET addr_len == data[5]
                                    name == PySlice(data, 5, 5 + addr_len)
                                    port == PySlice(data, 5 + addr_len, 7 + addr_len)
                                IN  IF Len(data) < 5 + addr_len + 2 THEN RequestError(<<>>)
                                    ELSE IF ~Utf8Valid(name) THEN RequestError(<<>>)
                                    ELSE IF UnpackHRaises(port) THEN RequestError(<<>>)
                                    ELSE Request(cmd, atyp, Utf8Decode(name), UnpackH(port))
                 ELSE IF atyp = ATYP_IPV6
                      THEN IF Len(data) < 22 THEN RequestError(<<>>)
                           ELSE IF UnpackHRaises(PySlice(data, 20, 22)) THEN RequestError(<<>>)
                           ELSE Request(cmd, atyp, inet_ntop(PySlice(data, 4, 20)),
                                        UnpackH(PySlice(data, 20, 22)))
                 ELSE unsupported_address_type(txOk)

---------------------------------------------------------------------------
(* The client side: how a client encodes the frames of RFC 1928 and 1929,  *)
(* and what the text of an address denotes.                                *)

\* the UTF-8 bytes of one code point below 2048
Utf8Char(cp) ==
    IF cp < 128 THEN <<cp>> ELSE <<192 + (cp \div 64), 128 + (cp % 64)>>

RECURSIVE Utf8EncodeRange(_, _, _)
Utf8EncodeRange(text, lo, hi) ==
    IF lo > hi THEN <<>>
    ELSE IF lo = hi THEN Utf8Char(text[lo])
    ELSE LET mid == (lo + hi) \div 2
         IN  Utf8EncodeRange(text, lo, mid) \o Utf8EncodeRange(text, mid + 1, hi)

\* str.encode('utf-8') for code points below 2048
Utf8Encode(text) == Utf8EncodeRange(text, 1, Len(text))

\* the index of the first c in s, 0 when there is none
RECURSIVE IndexOf(_, _)
IndexOf(s, c) ==
    IF s = <<>> THEN 0
    ELSE IF s[1] = c THEN 1
    ELSE LET r == IndexOf(Tail(s), c) IN IF r = 0 THEN 0 ELSE r + 1

\* s.split(c)
RECURSIVE Split(_, _)
Split(s, c) ==
    LET i == IndexOf(s, c)
    IN  IF i = 0 THEN <<s>>
        ELSE <<SubSeq(s, 1, i - 1)>> \o Split(SubSeq(s, i + 1, Len(s)), c)

\* the value of a digit character, decimal or lower-case hexadecimal
DigitValue(ch) == IF ch <= 57 THEN ch - 48 ELSE ch - 87

\* int(s, base)
RECURSIVE ParseInt(_, _)
ParseInt(s, base) ==
    IF s = <<>> THEN 0
    ELSE ParseInt(SubSeq(s, 1, Len(s) - 1), base) * base + DigitValue(s[Len(s)])

\* socket.inet_aton(text): the four bytes of a dotted quad
inet_aton(text) ==
    LET parts == Split(text, 46) IN [i \in 1..4 |-> ParseInt(parts[i], 10)]

\* the bytes of one colon-separated group of an IPv6 text: a dotted quad
\* gives four bytes, a hexadecimal group two
RECURSIVE GroupBytes(_)
GroupBytes(groups) ==
    IF groups = <<>> THEN <<>>
    ELSE (IF IndexOf(groups[1], 46) # 0 THEN inet_aton(groups[1])
          ELSE PackH(ParseInt(groups[1], 16)))
         \o GroupBytes(Tail(groups))

\* the index of the first "::" in s, 0 when there is none
RECURSIVE IndexOfGap(_)
IndexOfGap(s) ==
    IF Len(s) < 2 THEN 0
    ELSE IF s[1] = 58 /\ s[2] = 58 THEN 1
    ELSE LET r == IndexOfGap(Tail(s)) IN IF r = 0 THEN 0 ELSE r + 1

\* socket.inet_pton(AF_INET6, text): the sixteen bytes the text denotes
inet_pton(text) ==
    LET g == IndexOfGap(text)
        groupsOf(t) == IF t = <<>> THEN <<>> ELSE GroupBytes(Split(t, 58))
    IN  IF g = 0 THEN groupsOf(text)
        ELSE LET left == groupsOf(SubSeq(text, 1, g - 1))
                 right == groupsOf(SubSeq(text, g + 2, Len(text)))
             IN  left \o [i \in 1..(16 - Len(left) - Len(right)) |-> 0] \o right

\* the address bytes of a request: text is a str for a domain, bytes otherwise
AddressBytes(atyp, addr) ==
    IF atyp = ATYP_DOMAIN THEN <<Len(Utf8Encode(addr))>> \o Utf8Encode(addr) ELSE addr

\* VER CMD RSV ATYP DST.ADDR DST.PORT
EncodeRequest(cmd, atyp, addr, port) ==
    <<SOCKS_VERSION, cmd, RESERVED, atyp>> \o AddressBytes(atyp, addr) \o PackH(port)

\* whether the text parse_request returned denotes the address addr
SameAddress(atyp, dst_addr, addr) ==
    IF atyp = ATYP_IPV4 THEN inet_aton(dst_addr) = addr
    ELSE IF atyp = ATYP_IPV6 THEN inet_pton(dst_addr) = addr
    ELSE dst_addr = addr

\* VER NMETHODS METHODS
EncodeGreeting(methods) == <<SOCKS_VERSION, Len(methods)>> \o methods

\* VER ULEN UNAME PLEN PASSWD, from the bytes of the name and the password
EncodeAuth(uname, passwd) ==
    <<AUTH_VERSION, Len(uname)>> \o uname \o <<Len(passwd)>> \o passwd

\* a frame without its last byte
DropLast(frame) == SubSeq(frame, 1, Len(frame) - 1)

\* all sequences over S of length at most n
SeqsUpTo(S, n) == UNION {[1..k -> S] : k \in 0..n}

---------------------------------------------------------------------------
(* The inputs the model draws. *)

\* method codes a client offers: NoAuth, GSSAPI, UsernamePassword
MethodBytes == {NO_AUTH, 1, USERNAME_PASSWORD}

\* greetings: well formed, with NMETHODS above or below the bytes present,
\* with a wrong version, too short
Greetings ==
    {<<v, n>> \o ms : v \in {4, SOCKS_VERSION}, n \in 0..(MaxMethods + 1),
                      ms \in SeqsUpTo(MethodBytes, MaxMethods)}
    \cup {<<>>, <<SOCKS_VERSION>>}

\* the credential stores: empty, one user, two users ("a":"x", "b":"y")
Stores ==
    {NoUsers, (<<97>> :> <<120>>), (<<97>> :> <<120>>) @@ (<<98>> :> <<121>>)}

\* usernames and passwords as str
Names == {<<>>, <<97>>, <<98>>, <<99>>}
Passwords == {<<>>, <<120>>, <<121>>}

\* usernames and passwords as sent: UTF-8, or with a byte that is not
NameBytes == {<<>>, <<97>>, <<98>>, <<99>>, <<97, 255>>}
PassBytes == {<<>>, <<120>>, <<121>>}

\* authentication requests: well formed, cut by one byte, with a wrong
\* version, too short
AuthFrames ==
    LET wf == {EncodeAuth(u, p) : u \in NameBytes, p \in PassBytes}
    IN  wf \cup {DropLast(f) : f \in wf} \cup {<<SOCKS_VERSION>> \o Tail(f) : f \in wf}
           \cup {<<>>, <<AUTH_VERSION>>}

Commands == {CMD_CONNECT, CMD_BIND, CMD_UDP_ASSOCIATE, 9}
Ports == {0, 80, 256, 443, 65535}
IPv4Addrs == {<<0, 0, 0, 0>>, <<93, 184, 216, 34>>, <<127, 0, 0, 1>>, <<255, 255, 255, 255>>}
IPv6Addrs ==
    {<<0, 0, 0, 0, 0, 0, 0, 0, 0, 0, 0, 0, 0, 0, 0, 0>>,
     <<0, 0, 0, 0, 0, 0, 0, 0, 0, 0, 0, 0, 0, 0, 0, 1>>,
     <<32, 1, 13, 184, 0, 0, 0, 0, 0, 0, 0, 0, 0, 0, 0, 1>>,
     <<0, 0, 0, 0, 0, 0, 0, 0, 0, 0, 255, 255, 1, 2, 3, 4>>,
     <<254, 128, 0, 0, 0, 0, 0, 0, 0, 1, 0, 0, 0, 0, 0, 0>>,
     <<1, 2, 3, 4, 5, 6, 7, 8, 9, 10, 11, 12, 13, 14, 15, 16>>}

\* the characters of domain names: "a", "." and (two bytes in UTF-8) "e acute"
DomainChars == {97, 46, 233}

\* the longest name the length byte admits: with it a request fills the
\* receive buffer exactly
LongestDomain == [i \in 1..255 |-> 97]

Domains == SeqsUpTo(DomainChars, MaxDomainLen) \cup {LongestDomain}

\* destinations: <<address type, address>>
Targets ==
    {<<ATYP_IPV4, a>> : a \in IPv4Addrs} \cup {<<ATYP_DOMAIN, d>> : d \in Domains}
    \cup {<<ATYP_IPV6, a>> : a \in IPv6Addrs}

\* frames that are no encoding of a request: too short, a domain request
\* without its length byte, a wrong version, an unknown address type, a
\* domain that is not UTF-8
RawRequests ==
    {<<>>, <<SOCKS_VERSION>>, <<SOCKS_VERSION, CMD_CONNECT, RESERVED>>,
     <<SOCKS_VERSION, CMD_CONNECT, RESERVED, ATYP_DOMAIN>>,
     <<4, CMD_CONNECT, RESERVED, ATYP_IPV4, 127, 0, 0, 1, 0, 80>>,
     <<4, CMD_CONNECT, RESERVED, 2, 127, 0, 0, 1, 0, 80>>,
     <<SOCKS_VERSION, CMD_CONNECT, RESERVED, ATYP_DOMAIN, 1, 255, 0, 80>>}
    \cup {<<SOCKS_VERSION, c, RESERVED, t>> \o rest :
              c \in Commands, t \in {0, 2, 5}, rest \in {<<>>, <<127, 0, 0, 1, 0, 80>>}}

\* the shapes in which an encoded request reaches parse_request
Shaped(shape, frame) ==
    IF shape = "truncated" THEN DropLast(frame)
    ELSE IF shape = "extended" THEN frame \o <<0>>
    ELSE frame

\* the local port the kernel bound the outbound socket to
BindPorts == {1024, 65535}

\* what socket() and connect() do: the connection is made, socket.gaierror,
\* ConnectionRefusedError, another exception
ConnectOutcomes == {"connected", "gaierror", "refused", "error"}

\* what the session's client sends as a greeting and as a request
WireGreetings ==
    {EncodeGreeting(<<NO_AUTH>>), EncodeGreeting(<<NO_AUTH, USERNAME_PASSWORD>>),
     EncodeGreeting(<<USERNAME_PASSWORD>>), EncodeGreeting(<<1>>),
     <<>>, <<SOCKS_VERSION, 1>>, <<4, 1, NO_AUTH>>}
WireTargets ==
    {<<ATYP_IPV4, <<93, 184, 216, 34>>>>, <<ATYP_DOMAIN, <<97>>>>,
     <<ATYP_IPV6, <<0, 0, 0, 0, 0, 0, 0, 0, 0, 0, 0, 0, 0, 0, 0, 1>>>>}
WireRequests ==
    {Shaped(sh, EncodeRequest(c, t[1], t[2], 80)) :
         sh \in {"exact", "truncated"}, c \in {CMD_CONNECT, CMD_BIND, 9}, t \in WireTargets}
    \cup RawRequests

---------------------------------------------------------------------------
(* The state before anything ran. *)

NoRx == [err |-> FALSE, data |-> <<>>]
NotParsed ==
    [raised |-> FALSE, cmd |-> None, atyp |-> None, dst_addr |-> <<>>,
     dst_port |-> None, tx |-> <<>>]
NoCall == [fn |-> "none"]
NoRet == [value |-> None]

\* the session of a connection just accepted: handle_client about to start
NewSession ==
    [pc |-> "handshake", rxGreeting |-> NoRx, hsResult |-> <<>>, rxRequest |-> NoRx,
     parsed |-> NotParsed, sent |-> <<>>, reads |-> 0, connectState |-> "none",
     clientCloses |-> 0, remoteCloses |-> 0, relayed |-> 0, boundPort |-> None,
     fromClient |-> <<>>, fromRemote |-> <<>>, toRemote |-> <<>>, toClient |-> <<>>,
     relayEnd |-> "none", log |-> <<>>, escaped |-> FALSE, calls |-> <<>>]

Fresh ==
    /\ rxGreeting = NoRx
    /\ hsResult = <<>>
    /\ rxRequest = NoRx
    /\ parsed = NotParsed
    /\ sent = <<>>
    /\ reads = 0
    /\ connectState = "none"
    /\ clientCloses = 0
    /\ remoteCloses = 0
    /\ relayed = 0
    /\ boundPort = None
    /\ fromClient = <<>>
    /\ fromRemote = <<>>
    /\ toRemote = <<>>
    /\ toClient = <<>>
    /\ relayEnd = "none"
    /\ log = <<>>
    /\ escaped = FALSE
    /\ threads = <<>>
    /\ accepting = FALSE
    /\ serverSocket = "none"
    /\ stops = 0
    /\ process = "running"
    /\ bare = NewSession
    /\ running = 0
    /\ calls = <<>>
    /\ call = NoCall
    /\ ret = NoRet

---------------------------------------------------------------------------
(* The functions of handlers.py and auth.py applied to drawn inputs: each  *)
(* action is one call on a fresh client socket, call its arguments, ret    *)
(* its result, sent and reads what it did on the socket.                   *)

sessionVars ==
    <<rxGreeting, hsResult, rxRequest, parsed, connectState, clientCloses,
      remoteCloses, relayed, boundPort, fromClient, fromRemote, toRemote, toClient,
      relayEnd, log, escaped, threads, accepting, serverSocket, stops, process, bare,
      running, calls>>

InitFn ==
    /\ users \in Stores
    /\ authFile = NoFile
    /\ pc = "idle"
    /\ Fresh

\* perform_handshake(client_socket, auth_manager), auth_manager None or the
\* AuthenticationManager
CallPerformHandshake ==
    /\ pc = "idle"
    /\ \E rx \in {RxData(f) : f \in Greetings} \cup {RxError},
          mgr \in {NoManager, Manager(users)}, txOk \in BOOLEAN :
          LET r == perform_handshake(rx, mgr, txOk)
          IN  /\ call' = [fn |-> "perform_handshake", rx |-> rx, mgr |-> mgr, txOk |-> txOk]
              /\ ret' = [value |-> r.ret]
              /\ sent' = r.tx
    /\ reads' = 1
    /\ pc' = "returned"
    /\ UNCHANGED <<users, authFile, sessionVars>>

\* authenticate_user_password(client_socket, auth_manager)
CallAuthenticateUserPassword ==
    /\ pc = "idle"
    /\ \E rx \in {RxData(f) : f \in AuthFrames} \cup {RxError}, txOk \in BOOLEAN :
          LET r == authenticate_user_password(rx, users, txOk)
          IN  /\ call' = [fn |-> "authenticate_user_password", rx |-> rx, txOk |-> txOk]
              /\ ret' = [value |-> r.ret]
              /\ sent' = r.tx
    /\ reads' = 1
    /\ pc' = "returned"
    /\ UNCHANGED <<users, authFile, sessionVars>>

\* parse_request(client_socket) on an encoded request, whole, cut by one
\* byte or with one byte more
CallParseRequest ==
    /\ pc = "idle"
    /\ \E shape \in {"exact", "truncated", "extended"}, cmd \in Commands,
          t \in Targets, port \in Ports, txOk \in BOOLEAN :
          LET rx == RxData(Shaped(shape, EncodeRequest(cmd, t[1], t[2], port)))
              r == parse_request(rx, txOk)
          IN  /\ call' = [fn |-> "parse_request", shape |-> shape, cmd |-> cmd,
                          atyp |-> t[1], addr |-> t[2], port |-> port,
                          rx |-> rx, txOk |-> txOk]
              /\ ret' = [value |-> r]
              /\ sent' = r.tx
    /\ reads' = 1
    /\ pc' = "returned"
    /\ UNCHANGED <<users, authFile, sessionVars>>

\* parse_request(client_socket) on a frame that encodes no request
CallParseRaw ==
    /\ pc = "idle"
    /\ \E rx \in {RxData(f) : f \in RawRequests} \cup {RxError}, txOk \in BOOLEAN :
          LET r == parse_request(rx, txOk)
          IN  /\ call' = [fn |-> "parse_request", shape |-> "raw", cmd |-> None,
                          atyp |-> None, addr |-> <<>>, port |-> None,
                          rx |-> rx, txOk |-> txOk]
              /\ ret' = [value |-> r]
              /\ sent' = r.tx
    /\ reads' = 1
    /\ pc' = "returned"
    /\ UNCHANGED <<users, authFile, sessionVars>>

\* AuthenticationManager.authenticate(username, password)
CallAuthenticate ==
    /\ pc = "idle"
    /\ \E username \in Names, password \in Passwords :
          /\ call' = [fn |-> "authenticate", username |-> username,
                          password |-> password, before |-> users]
          /\ ret' = [value |-> authenticate(users, username, password)]
    /\ pc' = "returned"
    /\ UNCHANGED <<users, authFile, sent, reads, sessionVars>>

NextFn ==
    \/ CallPerformHandshake
    \/ CallAuthenticateUserPassword
    \/ CallParseRequest
    \/ CallParseRaw
    \/ CallAuthenticate

SpecFn == InitFn /\ [][NextFn]_vars

---------------------------------------------------------------------------
(* Claims about the functions, under SpecFn. *)

\* the greeting carries all the method bytes it declares
ValidGreeting(data) ==
    Len(data) >= 3 /\ data[1] = SOCKS_VERSION /\ Len(data) >= 2 + data[2]

\* the methods a valid greeting offers
Offered(data) == {data[i] : i \in 3..(2 + data[2])}

\* the methods the server supports, given the auth_manager it was handed
ServerSupported(mgr) ==
    {NO_AUTH} \cup (IF mgr.present /\ DOMAIN mgr.users # {} THEN {USERNAME_PASSWORD} ELSE {})

Largest(S) == CHOOSE x \in S : \A y \in S : y <= x

\* C1: whenever perform_handshake selects UsernamePassword (its selection
\* frame 05 02 is sent), the username/password sub-negotiation runs next on
\* the same socket: a second read, then one auth-result frame, and the
\* result returned is that authentication's outcome.
C1_AuthenticationFollowsSelection ==
    (/\ call.fn = "perform_handshake"
     /\ Len(sent) >= 1
     /\ sent[1] = Tx(MethodSelection(USERNAME_PASSWORD), TRUE))
    => /\ reads = 2
       /\ Len(sent) = 2
       /\ sent[2].bytes \in {AuthResult(AUTH_SUCCESS), AuthResult(AUTH_FAILURE)}
       /\ ret.value[1] = (sent[2].bytes = AuthResult(AUTH_SUCCESS))

\* C2: for every valid greeting whose offered methods meet the supported
\* ones ({NoAuth}, plus UsernamePassword iff the store is non-empty),
\* perform_handshake writes the selection frame of the numerically largest
\* common method and, the frame sent, returns (True, that method).
C2_SelectsLargestCommonMethod ==
    (/\ call.fn = "perform_handshake"
     /\ ~call.rx.err
     /\ ValidGreeting(call.rx.data)
     /\ Offered(call.rx.data) \cap ServerSupported(call.mgr) # {})
    => LET best == Largest(Offered(call.rx.data) \cap ServerSupported(call.mgr))
       IN  /\ Len(sent) = 1
           /\ sent[1].bytes = <<SOCKS_VERSION, best>>
           /\ call.txOk => ret.value = <<TRUE, best>>

\* C2's case: NoAuth first, UsernamePassword after it, one of them twice,
\* against a non-empty store, answered 05 02
C2_Witness ==
    /\ call.fn = "perform_handshake"
    /\ ~call.rx.err
    /\ ValidGreeting(call.rx.data)
    /\ Len(call.rx.data) = 5
    /\ call.rx.data[3] = NO_AUTH
    /\ Offered(call.rx.data) = {NO_AUTH, USERNAME_PASSWORD}
    /\ call.mgr.present /\ DOMAIN call.mgr.users # {}
    /\ sent = <<Tx(<<SOCKS_VERSION, USERNAME_PASSWORD>>, TRUE)>>
    /\ ret.value = <<TRUE, USERNAME_PASSWORD>>

\* C5: authenticate(u, p) is true iff the store is empty or maps u to p,
\* and the store after the call is the store before it.
C5_AuthenticateMatchesStore ==
    call.fn = "authenticate"
    => /\ ret.value = (\/ DOMAIN call.before = {}
                       \/ /\ call.username \in DOMAIN call.before
                          /\ call.before[call.username] = call.password)
       /\ users = call.before

\* C5's case: a known user with another user's password is refused
C5_Witness ==
    /\ call.fn = "authenticate"
    /\ call.username \in DOMAIN users
    /\ call.password # users[call.username]
    /\ \E u \in DOMAIN users : users[u] = call.password
    /\ ret.value = FALSE

\* C6: on every path of authenticate_user_password exactly one auth-result
\* frame is sent, 01 00 when it returns True and 01 01 when it returns False.
C6_ExactlyOneAuthResultFrame ==
    call.fn = "authenticate_user_password"
    => /\ Len(sent) = 1
       /\ sent[1].bytes =
              AuthResult(IF ret.value THEN AUTH_SUCCESS ELSE AUTH_FAILURE)

\* C7: a version-5 request encoded from (command, address, port), the
\* address IPv4, IPv6 or a domain of 1..255 bytes, is decoded by
\* parse_request to the same command, to text that denotes the same address
\* and to the same port.
C7_RequestRoundTrip ==
    (/\ call.fn = "parse_request"
     /\ call.shape = "exact"
     /\ call.atyp = ATYP_DOMAIN => Len(Utf8Encode(call.addr)) \in 1..255)
    => /\ ~ret.value.raised
       /\ ret.value.cmd = call.cmd
       /\ ret.value.atyp = call.atyp
       /\ SameAddress(call.atyp, ret.value.dst_addr, call.addr)
       /\ ret.value.dst_port = call.port

\* the request with the longest domain name is decoded whole
C7_LongestDomainDecoded ==
    /\ call.fn = "parse_request"
    /\ call.shape = "exact"
    /\ call.addr = LongestDomain
    /\ Len(call.rx.data) = HANDSHAKE_BUFFER_SIZE
    /\ ret.value.dst_addr = LongestDomain

\* C7's case: an IPv6 address whose text is compressed, a port whose two
\* bytes differ, decoded
C7_Witness ==
    /\ call.fn = "parse_request"
    /\ call.shape = "exact"
    /\ call.atyp = ATYP_IPV6
    /\ call.port = 256
    /\ ~ret.value.raised
    /\ IndexOfGap(ret.value.dst_addr) # 0
    /\ Len(ret.value.dst_addr) > 2
    /\ ret.value.dst_port = 256

\* C8: a well-formed IPv4, domain or IPv6 request without its last byte is
\* never decoded: parse_request raises.
C8_TruncatedRequestRaises ==
    (call.fn = "parse_request" /\ call.shape = "truncated") => ret.value.raised

\* C8's case: a domain request cut inside its port field
C8_Witness ==
    /\ call.fn = "parse_request"
    /\ call.shape = "truncated"
    /\ call.atyp = ATYP_DOMAIN
    /\ Len(call.addr) >= 1
    /\ Len(call.rx.data) = 5 + call.rx.data[5] + 1
    /\ ret.value.raised

\* C22: a greeting of fewer than 3 bytes, with a version other than 5, or
\* with fewer method bytes than its NMETHODS byte declares is a decode
\* failure: perform_handshake returns (False, None) and sends nothing.
C22_MalformedGreetingRejected ==
    (/\ call.fn = "perform_handshake"
     /\ ~call.rx.err
     /\ ~ValidGreeting(call.rx.data))
    => /\ ret.value = <<FALSE, None>>
       /\ sent = <<>>

\* C23: an IPv4 request is decoded only from a frame of exactly 10 bytes, an
\* IPv6 request only from one of exactly 22 bytes; a shorter or longer
\* frame of these address types makes parse_request raise.
C23_ExactFrameLength ==
    (/\ call.fn = "parse_request"
     /\ ~call.rx.err
     /\ Len(call.rx.data) >= 4
     /\ call.rx.data[1] = SOCKS_VERSION
     /\ call.rx.data[4] \in {ATYP_IPV4, ATYP_IPV6})
    => (ret.value.raised
           <=> Len(call.rx.data) # (IF call.rx.data[4] = ATYP_IPV4 THEN 10 ELSE 22))

---------------------------------------------------------------------------
(* auth.py: the credential store under a sequence of add_user and          *)
(* remove_user calls, as manage_user.py makes them, with or without a file *)
(* behind it.  call is the last call and the users map before it.          *)

\* what saving the file can do
SaveOutcomes == {"saved", "open_failed", "write_failed"}

\* AuthenticationManager(auth_file_path): _load_users has read the file, or
\* there is no file and no user
InitStore ==
    /\ \/ users = NoUsers /\ authFile = NoFile
       \/ users \in Stores /\ authFile = [path |-> TRUE, intact |-> TRUE, users |-> users]
    /\ pc = "idle"
    /\ Fresh

AddUser ==
    /\ \E username \in Names, password \in Passwords, how \in SaveOutcomes :
          LET r == add_user(users, authFile, username, password, how)
          IN  /\ call' = [fn |-> "add_user", username |-> username,
                          password |-> password, before |-> users]
              /\ ret' = [value |-> r.ret]
              /\ users' = r.users
              /\ authFile' = r.file
    /\ UNCHANGED <<pc, sent, reads, sessionVars>>

RemoveUser ==
    /\ \E username \in Names, how \in SaveOutcomes :
          LET r == remove_user(users, authFile, username, how)
          IN  /\ call' = [fn |-> "remove_user", username |-> username,
                          password |-> <<>>, before |-> users]
              /\ ret' = [value |-> r.ret]
              /\ users' = r.users
              /\ authFile' = r.file
    /\ UNCHANGED <<pc, sent, reads, sessionVars>>

NextStore ==
    \/ AddUser
    \/ RemoveUser

SpecStore == InitStore /\ [][NextStore]_vars

\* C31: when add_user or remove_user has returned False, the users map is
\* the one before the call; and when add_user has returned True, every user
\* there was before the call still has the password it had.
C31_FailedCallLeavesUsers ==
    /\ (call.fn \in {"add_user", "remove_user"} /\ ~ret.value)
       => users = call.before
    /\ (call.fn = "add_user" /\ ret.value)
       => \A u \in DOMAIN call.before : u \in DOMAIN users /\ users[u] = call.before[u]

---------------------------------------------------------------------------
(* server.py: Socks5Server.handle_client, one session.  Each action is one *)
(* call handle_client makes together with what handle_client does with its *)
(* result.  A close() call closes or raises according to closeOk.          *)

\* `not value` for a tuple: true of the empty tuple only
not_tuple(value) == Len(value) = 0

\* the dispatch's else branch with the reply of another failure
unsupported_command_general_failure(txOk) == send_reply(REP_GENERAL_FAILURE, txOk)

\* send_reply(client_socket, REP_COMMAND_NOT_SUPPORTED)
unsupported_command(txOk) == send_reply(REP_COMMAND_NOT_SUPPORTED, txOk)

\* every failure answered as a general failure
connect_error_reply_general(outcome) == REP_GENERAL_FAILURE

\* the reply code handle_connect's except clauses send
connect_error_reply(outcome) ==
    IF outcome = "gaierror" THEN REP_HOST_UNREACHABLE
    ELSE IF outcome = "refused" THEN REP_CONNECTION_REFUSED
    ELSE REP_GENERAL_FAILURE

\* the Success reply built like the failure replies, with port 0
success_reply_zero_port(bind_port) == EncodeReply(REP_SUCCESS, 0)

\* the Success reply: bind_ip 0.0.0.0 and bind_port, the local port of the
\* outbound socket
success_reply(bind_port) == EncodeReply(REP_SUCCESS, bind_port)

\* one "send" per sendall call
LogTx(tx) == [i \in 1..Len(tx) |-> "send"]

\* handle_client's except clause: client_socket.close() inside its own
\* try/except; nothing leaves it
close_on_error(closeOk) == [closes |-> 1, escaped |-> FALSE]

\* client_socket.close() in handle_client's try body: when it raises, the
\* except clause runs
close_in_try(closeOk, closeOk2) ==
    IF closeOk THEN [closes |-> 1, escaped |-> FALSE]
    ELSE [closes |-> 1 + close_on_error(closeOk2).closes,
          escaped |-> close_on_error(closeOk2).escaped]

\* one "close_client" per client_socket.close() call
LogClose(n) == [i \in 1..n |-> "close_client"]

\* handle_connect up to the call of relay_data.  outcome is what
\* socket()/connect() did; txOk the sendall of the Success reply, txOk2 the
\* sendall of send_reply in an except clause, closeOk the close() there
\* (raised: that close() raised, and the exception leaves handle_connect).
handle_connect(outcome, bind_port, txOk, txOk2, closeOk) ==
    IF outcome = "connected" /\ txOk
    THEN [tx |-> <<Tx(success_reply(bind_port), TRUE)>>,
          log |-> <<"connect", "setblocking_remote", "setblocking_client",
                    "getsockname", "send", "relay_data">>,
          relay |-> TRUE, closes |-> 0, raised |-> FALSE]
    ELSE IF outcome = "connected"
    THEN [tx |-> <<Tx(success_reply(bind_port), FALSE)>>
                     \o send_reply(REP_GENERAL_FAILURE, txOk2),
          log |-> <<"connect", "setblocking_remote", "setblocking_client",
                    "getsockname", "send", "send", "close_client">>,
          relay |-> FALSE, closes |-> 1, raised |-> ~closeOk]
    ELSE [tx |-> send_reply(connect_error_reply(outcome), txOk2),
          log |-> <<"connect", "send", "close_client">>,
          relay |-> FALSE, closes |-> 1, raised |-> ~closeOk]

\* the session as one value: the client socket's history and the position
\* of handle_client
Session ==
    [pc |-> pc, rxGreeting |-> rxGreeting, hsResult |-> hsResult,
     rxRequest |-> rxRequest, parsed |-> parsed, sent |-> sent, reads |-> reads,
     connectState |-> connectState, clientCloses |-> clientCloses,
     remoteCloses |-> remoteCloses, relayed |-> relayed, boundPort |-> boundPort,
     fromClient |-> fromClient, fromRemote |-> fromRemote, toRemote |-> toRemote,
     toClient |-> toClient, relayEnd |-> relayEnd, log |-> log, escaped |-> escaped,
     calls |-> calls]

\* handle_client returns after n more close() calls on the client socket
closed_and_returned(s, n, esc) ==
    [s EXCEPT !.clientCloses = @ + n, !.log = @ \o LogClose(n),
              !.escaped = esc, !.pc = "done"]

\* perform_handshake(client_socket): no auth_manager is passed.  Then
\* the test `if not perform_handshake(...)`: close and return
handshake_step(s, rx, txOk, closeOk, closeOk2) ==
    LET r == perform_handshake(rx, NoManager, txOk)
        c == close_in_try(closeOk, closeOk2)
        t == [s EXCEPT !.rxGreeting = rx, !.hsResult = r.ret, !.sent = @ \o r.tx,
                       !.reads = @ + 1, !.log = @ \o <<"recv">> \o LogTx(r.tx),
                       !.calls = Append(@, "perform_handshake")]
    IN  IF not_tuple(r.ret) THEN closed_and_returned(t, c.closes, c.escaped)
        ELSE [t EXCEPT !.pc = "request"]

\* parse_request(client_socket) and the dispatch on cmd; an exception of
\* parse_request reaches handle_client's except clause, which closes
request_step(s, rx, txOk, closeOk, closeOk2) ==
    LET r == parse_request(rx, txOk)
        e == close_on_error(closeOk)
        c == close_in_try(closeOk, closeOk2)
        u == unsupported_command(txOk)
        t == [s EXCEPT !.rxRequest = rx, !.parsed = r, !.reads = @ + 1,
                       !.log = Append(@, "recv"),
                       !.calls = Append(@, "parse_request")]
    IN  IF r.raised
        THEN closed_and_returned([t EXCEPT !.sent = @ \o r.tx, !.log = @ \o LogTx(r.tx)],
                                 e.closes, e.escaped)
        ELSE IF r.cmd = CMD_CONNECT THEN [t EXCEPT !.pc = "connect"]
        ELSE closed_and_returned([t EXCEPT !.sent = @ \o u, !.log = @ \o LogTx(u)],
                                 c.closes, c.escaped)

\* handle_connect(client_socket, atyp, dst_addr, dst_port) up to the call of
\* relay_data; an exception that leaves it (a close() that raised) reaches
\* handle_client's except clause
connect_step(s, outcome, bind_port, txOk, txOk2, closeOk, closeOk2) ==
    LET h == handle_connect(outcome, bind_port, txOk, txOk2, closeOk)
        e == close_on_error(closeOk2)
        t == [s EXCEPT !.connectState = outcome,
                       !.boundPort = IF outcome = "connected" THEN bind_port ELSE @,
                       !.sent = @ \o h.tx, !.clientCloses = @ + h.closes,
                       !.log = @ \o h.log,
                       !.calls = @ \o (IF h.relay THEN <<"handle_connect", "relay_data">>
                                       ELSE <<"handle_connect">>)]
    IN  IF h.relay THEN [t EXCEPT !.pc = "relay"]
        ELSE IF h.raised THEN closed_and_returned(t, e.closes, e.escaped)
        ELSE [t EXCEPT !.pc = "done"]

---------------------------------------------------------------------------
(* socks5_server.py: relay_data(client_socket, remote_socket), the relay    *)
(* handle_connect hands the two sockets to.  One action is one pass of the *)
(* while loop: select, then the for loop over the readable sockets.        *)

\* the bytes the n-th recv of the relay returns (n from 0)
Chunk(n) == <<2 * n + 1, 2 * n + 2>>

\* what sendall(data) does on the non-blocking peer socket: all bytes
\* written, or n bytes written and then BlockingIOError or another exception
SendOutcomes ==
    {[kind |-> "ok", n |-> 2]}
    \cup {[kind |-> k, n |-> n] : k \in {"blocked", "error"}, n \in 0..1}

\* what one pass of the for loop meets on a socket: sock.recv(4096) returns
\* b'' (the peer closed), raises BlockingIOError or another exception, or
\* returns bytes, and then wr is what the sendall does
SockOutcomes ==
    {[rd |-> k, wr |-> [kind |-> "ok", n |-> 2]] : k \in {"eof", "blocked", "error"}}
    \cup {[rd |-> "data", wr |-> w] : w \in SendOutcomes}

\* the body of `for sock in readable` for one socket: recv, `if not data:
\* return`, sendall to the other socket; BlockingIOError: continue; any other
\* exception: return
relay_sock(s, sock, rd, wr) ==
    IF rd = "eof" THEN [s EXCEPT !.relayEnd = "eof"]
    ELSE IF rd = "blocked" THEN s
    ELSE IF rd = "error" THEN [s EXCEPT !.relayEnd = "error"]
    ELSE LET data == Chunk(s.relayed)
             written == IF wr.kind = "ok" THEN data ELSE PySlice(data, 0, wr.n)
             after == IF wr.kind = "error" THEN "error" ELSE s.relayEnd
         IN  IF sock = "client"
             THEN [s EXCEPT !.fromClient = @ \o data, !.toRemote = @ \o written,
                            !.relayed = @ + 1, !.relayEnd = after]
             ELSE [s EXCEPT !.fromRemote = @ \o data, !.toClient = @ \o written,
                            !.relayed = @ + 1, !.relayEnd = after]

\* the finally clause: remote_socket.close() and client_socket.close() in
\* one try, `except: pass`
relay_finally(remoteCloseOk) ==
    IF remoteCloseOk
    THEN [remoteCloses |-> 1, clientCloses |-> 1, log |-> <<"close_remote", "close_client">>]
    ELSE [remoteCloses |-> 1, clientCloses |-> 0, log |-> <<"close_remote">>]

\* the end of a pass of the while loop: back to select, or, when the loop
\* ended, the finally clause and the return through handle_connect to
\* handle_client
relay_pass_end(s, remoteCloseOk) ==
    IF s.relayEnd = "none" THEN s
    ELSE LET f == relay_finally(remoteCloseOk)
         IN  [s EXCEPT !.remoteCloses = @ + f.remoteCloses,
                       !.clientCloses = @ + f.clientCloses,
                       !.log = @ \o f.log, !.pc = "done"]

---------------------------------------------------------------------------
(* Where a session lives: in the variables of the single session, or in    *)
(* threads, as the session of one handler thread of the listener.          *)

\* the state of the listener: its loop, its socket, the stop() calls, the
\* process the threads live in
listener == <<accepting, serverSocket, stops, process>>

\* the variables of the single session take the values of s
Assign(s) ==
    /\ pc' = s.pc
    /\ rxGreeting' = s.rxGreeting
    /\ hsResult' = s.hsResult
    /\ rxRequest' = s.rxRequest
    /\ parsed' = s.parsed
    /\ sent' = s.sent
    /\ reads' = s.reads
    /\ connectState' = s.connectState
    /\ clientCloses' = s.clientCloses
    /\ remoteCloses' = s.remoteCloses
    /\ relayed' = s.relayed
    /\ boundPort' = s.boundPort
    /\ fromClient' = s.fromClient
    /\ fromRemote' = s.fromRemote
    /\ toRemote' = s.toRemote
    /\ toClient' = s.toClient
    /\ relayEnd' = s.relayEnd
    /\ log' = s.log
    /\ escaped' = s.escaped
    /\ calls' = s.calls

\* the session becomes s
Becomes(s) ==
    /\ Assign(s)
    /\ UNCHANGED <<users, authFile, threads, listener, bare, running, call, ret>>

\* the handler of another connection: the socket kept where every handler
\* finds it, so that a handler works on the connection accepted last
thread_socket_shared(t) == Len(threads)

\* the socket handler thread t works on: args=(client_socket,
\* client_address), the connection accepted for it
thread_socket(t) == t

\* the variables of the single session, which the listener does not use
alone ==
    <<users, authFile, pc, rxGreeting, hsResult, rxRequest, parsed, sent, reads, connectState,
      clientCloses, remoteCloses, relayed, boundPort, fromClient, fromRemote,
      toRemote, toClient, relayEnd, log, escaped, calls, call, ret, bare>>

\* handler thread t has taken a step: its session becomes s
ThreadBecomes(t, s) ==
    /\ threads' = [threads EXCEPT ![thread_socket(t)] = s]
    /\ running' = t
    /\ UNCHANGED <<listener, alone>>

\* what becomes of a session after a step: the single session (t = 0), or
\* the session of handler thread t
Put(t, s) == IF t = 0 THEN Becomes(s) ELSE ThreadBecomes(t, s)

---------------------------------------------------------------------------
(* The steps of a session s with the inputs they take from the world env;  *)
(* t is the thread whose session it is, 0 for the single session.          *)

\* a client socket the select timeout of the relay was set on
client_timeout_select == SELECT_TIMEOUT

\* the timeout of client_socket while handle_client reads the greeting and
\* the request: accept() returns a blocking socket and nothing calls
\* settimeout on it
client_timeout == None

\* what client_socket.recv(262) can do when the client may send one of
\* frames: return it, raise, or, on a socket with a timeout, time out
Recvs(frames) ==
    {RxData(f) : f \in frames} \cup {RxError}
    \cup (IF client_timeout = None THEN {} ELSE {RxTimeout})

\* what the world of a session may do: the frames its client sends, whether
\* a sendall or a close succeeds (oks), what connect does, the local port,
\* what the relay meets on a socket, the chunks a relay reads at most
World ==
    [greetings |-> WireGreetings, requests |-> WireRequests, oks |-> BOOLEAN,
     outcomes |-> ConnectOutcomes, ports |-> BindPorts, socks |-> SockOutcomes,
     chunks |-> MaxRelay]

HandshakeIn(s, env, t) ==
    /\ s.pc = "handshake"
    /\ \E rx \in Recvs(env.greetings),
          txOk \in env.oks, closeOk \in env.oks, closeOk2 \in env.oks :
          Put(t, handshake_step(s, rx, txOk, closeOk, closeOk2))

RequestIn(s, env, t) ==
    /\ s.pc = "request"
    /\ \E rx \in Recvs(env.requests),
          txOk \in env.oks, closeOk \in env.oks, closeOk2 \in env.oks :
          Put(t, request_step(s, rx, txOk, closeOk, closeOk2))

ConnectIn(s, env, t) ==
    /\ s.pc = "connect"
    /\ \E outcome \in env.outcomes, bind_port \in env.ports,
          txOk \in env.oks, txOk2 \in env.oks, closeOk \in env.oks, closeOk2 \in env.oks :
          Put(t, connect_step(s, outcome, bind_port, txOk, txOk2, closeOk, closeOk2))

\* the end of a pass that left the session as s
PassEndIn(s, env, t) ==
    /\ s.relayed <= env.chunks
    /\ IF s.relayEnd = "none" THEN Put(t, s)
       ELSE \E remoteCloseOk \in env.oks : Put(t, relay_pass_end(s, remoteCloseOk))

\* a pass in which select reported one socket readable
RelayOneIn(s, env, t) ==
    /\ s.pc = "relay"
    /\ \E sock \in {"client", "remote"}, o \in env.socks :
          PassEndIn(relay_sock(s, sock, o.rd, o.wr), env, t)

\* a pass in which select reported both sockets readable: the for loop
\* takes client_socket, then (unless it returned) remote_socket
RelayBothIn(s, env, t) ==
    /\ s.pc = "relay"
    /\ \E o1 \in env.socks :
          LET s1 == relay_sock(s, "client", o1.rd, o1.wr)
          IN  IF s1.relayEnd # "none" THEN PassEndIn(s1, env, t)
              ELSE \E o2 \in env.socks :
                      PassEndIn(relay_sock(s1, "remote", o2.rd, o2.wr), env, t)

\* a pass in which select returned no socket within the timeout (`if not
\* readable: break`), or raised
RelayIdleIn(s, env, t) ==
    /\ s.pc = "relay"
    /\ \E how \in {"timeout", "error"} :
          PassEndIn([s EXCEPT !.relayEnd = how], env, t)

---------------------------------------------------------------------------
(* One session: handle_client on one accepted connection. *)

Init ==
    /\ users \in Stores
    /\ authFile = NoFile
    /\ pc = "handshake"
    /\ Fresh

PerformHandshake == HandshakeIn(Session, World, 0)

ParseRequest == RequestIn(Session, World, 0)

HandleConnect == ConnectIn(Session, World, 0)

RelayOne == RelayOneIn(Session, World, 0)

RelayBoth == RelayBothIn(Session, World, 0)

RelayIdle == RelayIdleIn(Session, World, 0)

Next ==
    \/ PerformHandshake
    \/ ParseRequest
    \/ HandleConnect
    \/ RelayOne
    \/ RelayBoth
    \/ RelayIdle

Spec == Init /\ [][Next]_vars

---------------------------------------------------------------------------
(* socks5_server.py: the server in one file, without credential store.     *)
(* Its session runs next to the one of server.py with an empty store: both *)
(* meet the same client frames and the same outcomes of their socket       *)
(* calls.  From relay_data on the two run the same function.               *)

\* perform_handshake(client_socket): a bool; NoAuth or nothing
bare_perform_handshake(rx, txOk) ==
    LET data == rx.data
        failed == [ret |-> FALSE, tx |-> <<>>]
    IN  IF rx.err THEN failed
        ELSE IF Len(data) < 3 THEN failed
        ELSE IF data[1] # SOCKS_VERSION THEN failed
        ELSE LET nmethods == data[2]
                 methods == PySlice(data, 2, 2 + nmethods)
             IN  IF InList(NO_AUTH, methods)
                 THEN [ret |-> txOk, tx |-> <<Tx(MethodSelection(NO_AUTH), txOk)>>]
                 ELSE [ret |-> FALSE,
                       tx |-> <<Tx(MethodSelection(NO_ACCEPTABLE_METHODS), txOk)>>]

\* parse_request(client_socket): the version byte is unpacked and not
\* looked at; data[4] of a 4-byte domain frame raises IndexError
bare_parse_request(rx, txOk) ==
    LET data == rx.data
    IN  IF rx.err THEN RequestError(<<>>)
        ELSE IF Len(data) < 4 THEN RequestError(<<>>)
        ELSE LET cmd == data[2]
                 atyp == data[4]
             IN  IF atyp = ATYP_IPV4
                 THEN IF Len(data) < 10 THEN RequestError(<<>>)
                      ELSE Request(cmd, atyp, inet_ntoa(PySlice(data, 4, 8)),
                                   UnpackH(PySlice(data, 8, 10)))
                 ELSE IF atyp = ATYP_DOMAIN
                 THEN IF Len(data) < 5 THEN RequestError(<<>>)
                      ELSE LET addr_len == data[5]
                               name == PySlice(data, 5, 5 + addr_len)
                               port == PySlice(data, 5 + addr_len, 7 + addr_len)
                           IN  IF Len(data) < 5 + addr_len + 2 THEN RequestError(<<>>)
                               ELSE IF ~Utf8Valid(name) THEN RequestError(<<>>)
                               ELSE Request(cmd, atyp, Utf8Decode(name), UnpackH(port))
                 ELSE IF atyp = ATYP_IPV6
                 THEN IF Len(data) < 22 THEN RequestError(<<>>)
                      ELSE Request(cmd, atyp, inet_ntop(PySlice(data, 4, 20)),
                                   UnpackH(PySlice(data, 20, 22)))
                 ELSE RequestError(send_reply(REP_ADDRESS_TYPE_NOT_SUPPORTED, txOk))

\* handle_client: `if not self.perform_handshake(client_socket):
\* client_socket.close(); return`
bare_handshake_step(s, rx, txOk, closeOk, closeOk2) ==
    LET r == bare_perform_handshake(rx, txOk)
        c == close_in_try(closeOk, closeOk2)
        t == [s EXCEPT !.rxGreeting = rx, !.hsResult = <<r.ret>>, !.sent = @ \o r.tx,
                       !.reads = @ + 1, !.log = @ \o <<"recv">> \o LogTx(r.tx),
                       !.calls = Append(@, "perform_handshake")]
    IN  IF ~r.ret THEN closed_and_returned(t, c.closes, c.escaped)
        ELSE [t EXCEPT !.pc = "request"]

\* handle_client: parse_request and the dispatch on cmd, the except clause
bare_request_step(s, rx, txOk, closeOk, closeOk2) ==
    LET r == bare_parse_request(rx, txOk)
        e == close_on_error(closeOk)
        c == close_in_try(closeOk, closeOk2)
        u == send_reply(REP_COMMAND_NOT_SUPPORTED, txOk)
        t == [s EXCEPT !.rxRequest = rx, !.parsed = r, !.reads = @ + 1,
                       !.log = Append(@, "recv"),
                       !.calls = Append(@, "parse_request")]
    IN  IF r.raised
        THEN closed_and_returned([t EXCEPT !.sent = @ \o r.tx, !.log = @ \o LogTx(r.tx)],
                                 e.closes, e.escaped)
        ELSE IF r.cmd = CMD_CONNECT THEN [t EXCEPT !.pc = "connect"]
        ELSE closed_and_returned([t EXCEPT !.sent = @ \o u, !.log = @ \o LogTx(u)],
                                 c.closes, c.escaped)

\* handle_connect of socks5_server.py: statement for statement the one of
\* handlers.py, up to self.relay_data
bare_connect_step(s, outcome, bind_port, txOk, txOk2, closeOk, closeOk2) ==
    connect_step(s, outcome, bind_port, txOk, txOk2, closeOk, closeOk2)

\* the two sessions become m (server.py) and b (socks5_server.py)
Both(m, b) ==
    /\ Assign(m)
    /\ bare' = b
    /\ UNCHANGED <<users, authFile, threads, listener, running, call, ret>>

InitPair ==
    /\ users = NoUsers
    /\ authFile = NoFile
    /\ pc = "handshake"
    /\ Fresh

\* the client's first frame reaches both servers
PairGreeting ==
    /\ pc = "handshake"
    /\ bare.pc = "handshake"
    /\ \E rx \in Recvs(WireGreetings), txOk \in BOOLEAN, closeOk \in BOOLEAN,
          closeOk2 \in BOOLEAN :
          Both(handshake_step(Session, rx, txOk, closeOk, closeOk2),
               bare_handshake_step(bare, rx, txOk, closeOk, closeOk2))

\* the client's second frame reaches the servers that read a request
PairRequest ==
    /\ pc = "request" \/ bare.pc = "request"
    /\ \E rx \in Recvs(WireRequests), txOk \in BOOLEAN, closeOk \in BOOLEAN,
          closeOk2 \in BOOLEAN :
          Both(IF pc = "request"
               THEN request_step(Session, rx, txOk, closeOk, closeOk2) ELSE Session,
               IF bare.pc = "request"
               THEN bare_request_step(bare, rx, txOk, closeOk, closeOk2) ELSE bare)

\* the servers that decoded a CONNECT request connect to the destination
PairConnect ==
    /\ pc = "connect" \/ bare.pc = "connect"
    /\ \E outcome \in ConnectOutcomes, bind_port \in BindPorts, txOk \in BOOLEAN,
          txOk2 \in BOOLEAN, closeOk \in BOOLEAN, closeOk2 \in BOOLEAN :
          Both(IF pc = "connect"
               THEN connect_step(Session, outcome, bind_port, txOk, txOk2, closeOk, closeOk2)
               ELSE Session,
               IF bare.pc = "connect"
               THEN bare_connect_step(bare, outcome, bind_port, txOk, txOk2, closeOk,
                                      closeOk2)
               ELSE bare)

NextPair ==
    \/ PairGreeting
    \/ PairRequest
    \/ PairConnect

SpecPair == InitPair /\ [][NextPair]_vars

---------------------------------------------------------------------------
(* server.py: Socks5Server.start, the accept loop, and the handler threads *)
(* it starts, one per accepted connection, in every interleaving.          *)

\* the worlds of the concurrent sessions: a client that sends a greeting
\* and a CONNECT request, whole or cut (a malformed frame), or resets; a
\* destination that accepts or refuses; a relay that forwards, meets the
\* end of a stream or an error
ThreadWorld ==
    [greetings |-> {EncodeGreeting(<<NO_AUTH>>)},
     requests |-> {Shaped(sh, EncodeRequest(CMD_CONNECT, ATYP_IPV4, <<93, 184, 216, 34>>, 80)) :
                      sh \in {"exact", "truncated"}},
     oks |-> {TRUE}, outcomes |-> {"connected", "refused"}, ports |-> {1024},
     socks |-> {o \in SockOutcomes : o.rd \in {"data", "eof", "error"} /\ o.wr.kind = "ok"},
     chunks |-> 1]

InitMT ==
    /\ users = NoUsers
    /\ authFile = NoFile
    /\ pc = "idle"
    /\ rxGreeting = NoRx
    /\ hsResult = <<>>
    /\ rxRequest = NoRx
    /\ parsed = NotParsed
    /\ sent = <<>>
    /\ reads = 0
    /\ connectState = "none"
    /\ clientCloses = 0
    /\ remoteCloses = 0
    /\ relayed = 0
    /\ boundPort = None
    /\ fromClient = <<>>
    /\ fromRemote = <<>>
    /\ toRemote = <<>>
    /\ toClient = <<>>
    /\ relayEnd = "none"
    /\ log = <<>>
    /\ escaped = FALSE
    /\ calls = <<>>
    /\ call = NoCall
    /\ ret = NoRet
    /\ bare = NewSession
    /\ threads = <<>>
    /\ accepting = TRUE
    /\ serverSocket = "listening"
    /\ stops = 0
    /\ process = "running"
    /\ running = 0

\* Socks5Server.stop(): `if self.server_socket: self.server_socket.close()`;
\* close() of a socket already closed does nothing and raises nothing
stop(sock) == IF sock = "none" THEN "none" ELSE "closed"

\* accept() returned a connection: a thread running handle_client on it is
\* started
Accept ==
    /\ accepting
    /\ process = "running"
    /\ serverSocket = "listening"
    /\ Len(threads) < MaxSessions
    /\ threads' = Append(threads, NewSession)
    /\ running' = 0
    /\ UNCHANGED <<listener, alone>>

\* accept() raised something other than socket.timeout (as it does on a
\* socket that was closed), the thread could not be started, or
\* KeyboardInterrupt was raised: the while loop is left and the finally
\* clause calls stop()
AcceptFails ==
    /\ accepting
    /\ process = "running"
    /\ accepting' = FALSE
    /\ serverSocket' = stop(serverSocket)
    /\ stops' = Min(stops + 1, MaxStops)
    /\ running' = 0
    /\ UNCHANGED <<threads, process, alone>>

\* stop() called from another thread than the one in start()
Stop ==
    /\ process = "running"
    /\ stops < MaxStops
    /\ serverSocket' = stop(serverSocket)
    /\ stops' = stops + 1
    /\ running' = 0
    /\ UNCHANGED <<threads, accepting, process, alone>>

\* main.py's signal_handler, run in the main thread while it is in the
\* accept loop: server.stop(), then sys.exit(0).  SystemExit leaves the
\* loop through the finally clause, which calls stop() again, and ends the
\* main thread; the handler threads are daemon threads (THREAD_DAEMON), so
\* the interpreter exits and they end where they are
SignalHandler ==
    /\ accepting
    /\ process = "running"
    /\ accepting' = FALSE
    /\ serverSocket' = stop(stop(serverSocket))
    /\ stops' = Min(stops + 2, MaxStops)
    /\ process' = "exited"
    /\ running' = 0
    /\ UNCHANGED <<threads, alone>>

\* one step of handler thread t, its client and destination those of env
ThreadStep(t, env) ==
    LET s == threads[thread_socket(t)]
    IN  \/ HandshakeIn(s, env, t)
        \/ RequestIn(s, env, t)
        \/ ConnectIn(s, env, t)
        \/ RelayOneIn(s, env, t)
        \/ RelayBothIn(s, env, t)
        \/ RelayIdleIn(s, env, t)

Handler ==
    /\ process = "running"
    /\ \E t \in 1..Len(threads) : ThreadStep(t, ThreadWorld)

NextMT ==
    \/ Accept
    \/ AcceptFails
    \/ Handler

SpecMT == InitMT /\ [][NextMT]_vars

\* the worlds of the sessions that run while the server is shut down: a
\* client that sends a greeting and a CONNECT request, or resets; a
\* destination that accepts; a relay whose peers stay silent or close
ShutdownWorld ==
    [greetings |-> {EncodeGreeting(<<NO_AUTH>>)},
     requests |-> {EncodeRequest(CMD_CONNECT, ATYP_IPV4, <<93, 184, 216, 34>>, 80)},
     oks |-> {TRUE}, outcomes |-> {"connected"}, ports |-> {1024},
     socks |-> {o \in SockOutcomes : o.rd = "eof"},
     chunks |-> 0]

HandlerAtShutdown ==
    /\ process = "running"
    /\ \E t \in 1..Len(threads) : ThreadStep(t, ShutdownWorld)

NextShutdown ==
    \/ Accept
    \/ AcceptFails
    \/ Stop
    \/ SignalHandler
    \/ HandlerAtShutdown

SpecShutdown == InitMT /\ [][NextShutdown]_vars

---------------------------------------------------------------------------
(* Claims about the session of server.py, under Spec. *)

\* the bytes of the sendall calls made so far
SentBytes == [i \in 1..Len(sent) |-> sent[i].bytes]

\* the SOCKS reply frames among them: every frame after the handshake's
\* two-byte method selection
ReplyFrames == SelectSeq(SentBytes, LAMBDA b : Len(b) # 2)

\* C3: a greeting whose offered methods have nothing in common with the
\* supported ones is answered with exactly 05 FF, and the session performs
\* no read after the one that took the greeting.
C3_NoAcceptableMethodEndsSession ==
    (/\ Len(calls) >= 1
     /\ ~rxGreeting.err
     /\ ValidGreeting(rxGreeting.data)
     /\ Offered(rxGreeting.data) \cap ServerSupported(Manager(users)) = {})
    => /\ SentBytes = <<(<<5, 255>>)>>
       /\ reads = 1

\* C4: when perform_handshake reports failure, handle_client closes the
\* client socket and stops: parse_request is not called, no reply frame is
\* sent, no outbound connection is opened.
C4_FailedNegotiationStops ==
    (Len(calls) >= 1 /\ hsResult[1] = FALSE)
    => /\ pc = "done"
       /\ clientCloses >= 1
       /\ calls = <<"perform_handshake">>
       /\ ReplyFrames = <<>>
       /\ connectState = "none"

\* a version-5 request of at least four bytes whose ATYP is none of 1, 3, 4
UnsupportedAddressType(rx) ==
    /\ ~rx.err
    /\ Len(rx.data) >= 4
    /\ rx.data[1] = SOCKS_VERSION
    /\ rx.data[4] \notin {ATYP_IPV4, ATYP_DOMAIN, ATYP_IPV6}

\* C9: a request (version 5) with an unsupported address type, whatever its
\* command, gets exactly one reply, 05 08 00 01 and a zero address and
\* port; the client socket is closed in the same step, and no outbound
\* connection is attempted.
C9_UnsupportedAddressTypeReply ==
    (Len(calls) >= 2 /\ UnsupportedAddressType(rxRequest))
    => /\ ReplyFrames = <<(<<5, 8, 0, 1, 0, 0, 0, 0, 0, 0>>)>>
       /\ pc = "done"
       /\ clientCloses = 1
       /\ connectState = "none"
       /\ calls[Len(calls)] = "parse_request"

\* C9's case: ATYP 2 on a BIND request, the reply sent, the socket closed
C9_Witness ==
    /\ Len(calls) >= 2
    /\ UnsupportedAddressType(rxRequest)
    /\ rxRequest.data[4] = 2
    /\ rxRequest.data[2] = CMD_BIND
    /\ sent[Len(sent)] = Tx(<<5, 8, 0, 1, 0, 0, 0, 0, 0, 0>>, TRUE)
    /\ clientCloses = 1
    /\ pc = "done"

\* C10: a request that decoded and whose command is not CONNECT gets
\* exactly one reply, 05 07 00 01 and a zero address and port; the client
\* socket is closed and the session stops with no outbound connection and
\* no relay.
C10_CommandNotSupportedReply ==
    (Len(calls) >= 2 /\ ~parsed.raised /\ parsed.cmd # CMD_CONNECT)
    => /\ ReplyFrames = <<(<<5, 7, 0, 1, 0, 0, 0, 0, 0, 0>>)>>
       /\ pc = "done"
       /\ clientCloses >= 1
       /\ connectState = "none"
       /\ remoteCloses = 0
       /\ calls[Len(calls)] = "parse_request"

\* C10's case: a BIND request for a domain, decoded, answered and closed
C10_Witness ==
    /\ Len(calls) >= 2
    /\ ~parsed.raised
    /\ parsed.cmd = CMD_BIND
    /\ parsed.atyp = ATYP_DOMAIN
    /\ sent[Len(sent)] = Tx(<<5, 7, 0, 1, 0, 0, 0, 0, 0, 0>>, TRUE)
    /\ clientCloses = 1
    /\ pc = "done"

\* whether handle_client has called f
Called(f) == \E i \in 1..Len(calls) : calls[i] = f

\* C11: when the outbound connect fails, the one reply sent carries the code
\* of the failure: 04 for a name-resolution failure, 05 for a refusal, 01
\* for every other failure; the client socket is closed after the reply was
\* sent, and relay_data is never called.
C11_ConnectFailureReply ==
    (connectState \in {"gaierror", "refused", "error"})
    => /\ ReplyFrames =
             <<(<<5, (CASE connectState = "gaierror" -> 4
                        [] connectState = "refused" -> 5
                        [] OTHER -> 1), 0, 1, 0, 0, 0, 0, 0, 0>>)>>
       /\ pc = "done"
       /\ clientCloses >= 1
       /\ log[Len(log) - clientCloses] = "send"
       /\ \A i \in (Len(log) - clientCloses + 1)..Len(log) : log[i] = "close_client"
       /\ ~Called("relay_data")
       /\ relayed = 0
       /\ remoteCloses = 0

\* C11's case: the destination refused, 05 05 was sent, the socket closed
C11_Witness ==
    /\ connectState = "refused"
    /\ sent[Len(sent)] = Tx(<<5, 5, 0, 1, 0, 0, 0, 0, 0, 0>>, TRUE)
    /\ clientCloses = 1
    /\ pc = "done"

\* C12: when relay_data has been called, the outbound connection was
\* established first, then both sockets were made non-blocking, then the
\* one reply of the session was sent, 05 00 00 01 with address 0.0.0.0 and
\* the local port of the outbound socket, and only then the relay started;
\* a reply with code 00 is never sent unless the connection was established.
C12_SuccessReplyThenRelay ==
    /\ Called("relay_data")
       => /\ connectState = "connected"
          /\ sent[Len(sent)].ok
          /\ ReplyFrames =
                <<(<<5, 0, 0, 1, 0, 0, 0, 0, boundPort \div 256, boundPort % 256>>)>>
          /\ LET r == IndexOf(log, "relay_data")
             IN  /\ r > 5
                 /\ log[r - 1] = "send"
                 /\ IndexOf(log, "connect") > 0
                 /\ IndexOf(log, "connect") < IndexOf(log, "setblocking_remote")
                 /\ IndexOf(log, "connect") < IndexOf(log, "setblocking_client")
                 /\ IndexOf(log, "setblocking_remote") < r - 1
                 /\ IndexOf(log, "setblocking_client") < r - 1
    /\ \A i \in 1..Len(ReplyFrames) :
          ReplyFrames[i][2] = 0 => connectState = "connected"

\* C12's case: connected from local port 1024, the reply sent, the relay
\* running
C12_Witness ==
    /\ pc = "relay"
    /\ boundPort = 1024
    /\ sent[Len(sent)] = Tx(<<5, 0, 0, 1, 0, 0, 0, 0, 4, 0>>, TRUE)
    /\ Called("relay_data")

\* C13: whenever relay_data is at its readiness wait, every byte it read
\* from one socket has been written to the other, unmodified and in order.
C13_RelayDeliversEveryChunk ==
    (relayEnd = "none") => (toRemote = fromClient /\ toClient = fromRemote)

\* C14: once a recv of the relay returned b'', the relay has terminated (no
\* further pass forwards anything) and both sockets are closed.
C14_ZeroReadTerminates ==
    (relayEnd = "eof") => (pc = "done" /\ remoteCloses >= 1 /\ clientCloses >= 1)

\* C15: once the readiness wait expired with no socket readable, the relay
\* has terminated and both sockets are closed.
C15_IdleTimeoutCloses ==
    (relayEnd = "timeout") => (pc = "done" /\ remoteCloses >= 1 /\ clientCloses >= 1)

\* C16: however relay_data ended, close was called exactly once on the
\* remote socket and exactly once on the client socket.
C16_BothClosedExactlyOnce ==
    (relayEnd # "none") => (remoteCloses = 1 /\ clientCloses = 1)

\* C17: when handle_client has returned, the client socket is closed and,
\* if the outbound connection was established, so is the remote socket.
C17_SessionDestroyed ==
    (pc = "done")
    => (clientCloses >= 1 /\ (connectState = "connected" => remoteCloses >= 1))

\* C18: handle_client lets no exception out, and it returns with the client
\* socket closed.
C18_NeverRaisesClientClosed ==
    (pc = "done") => (~escaped /\ clientCloses >= 1)

\* C20: the phases of a session come in order, each entered only after the
\* one before succeeded: parse_request only after a successful negotiation,
\* handle_connect only after a decoded CONNECT request, relay_data only
\* after a connection; and after the first close no recv, send or connect.
C20_PhasesInOrder ==
    /\ Called("parse_request") => hsResult[1] = TRUE
    /\ Called("handle_connect") => (~parsed.raised /\ parsed.cmd = CMD_CONNECT)
    /\ Called("relay_data") => connectState = "connected"
    /\ \E n \in 0..4 :
          calls = SubSeq(<<"perform_handshake", "parse_request", "handle_connect",
                           "relay_data">>, 1, n)
    /\ \A i \in 1..Len(log) : \A j \in (i + 1)..Len(log) :
          log[i] \in {"close_client", "close_remote"}
          => log[j] \in {"close_client", "close_remote"}

\* C25: every reply frame sent is 10 bytes: version 5, the reply code,
\* reserved 0, address type IPv4, the address 0.0.0.0 and a two-byte
\* big-endian port.  A reply with a code other than 0 carries port 0; the
\* reply with code 0 is the one of a CONNECT whose connection was made and
\* carries the local port of the outbound socket, which is not 0.
C25_ReplyFrameFormat ==
    \A i \in 1..Len(ReplyFrames) :
        LET f == ReplyFrames[i]
        IN  /\ Len(f) = 10
            /\ f[1] = 5
            /\ f[3] = 0
            /\ f[4] = 1
            /\ SubSeq(f, 5, 8) = <<0, 0, 0, 0>>
            /\ f[2] # 0 => SubSeq(f, 9, 10) = <<0, 0>>
            /\ f[2] = 0 => /\ 256 * f[9] + f[10] = boundPort
                           /\ boundPort # 0
                           /\ parsed.cmd = CMD_CONNECT
                           /\ connectState = "connected"

\* C25's case: the Success reply with the local port 65535 was handed to
\* sendall, which raised, and the reply of a general failure followed
C25_Witness ==
    /\ ReplyFrames = << <<5, 0, 0, 1, 0, 0, 0, 0, 255, 255>>,
                        <<5, 1, 0, 1, 0, 0, 0, 0, 0, 0>> >>
    /\ pc = "done"

\* C26: in relay_data a read or write that would block ends nothing: the
\* relay is still running with both sockets open, also when bytes read were
\* not all written; an error of select, recv or sendall other than that
\* ends the relay, and then both sockets are closed.
C26_OnlyErrorsEndRelay ==
    /\ (Called("relay_data") /\ relayEnd = "none")
       => (pc = "relay" /\ remoteCloses = 0 /\ clientCloses = 0)
    /\ (relayEnd = "error")
       => (pc = "done" /\ remoteCloses = 1 /\ clientCloses = 1)

\* C29: a session sends at most one reply frame, and after the Success
\* reply was handed to sendall no failure reply follows.
C29_AtMostOneReply ==
    /\ Len(ReplyFrames) <= 1
    /\ \A i \in 1..Len(ReplyFrames) : \A j \in (i + 1)..Len(ReplyFrames) :
          ReplyFrames[i][2] = REP_SUCCESS => ReplyFrames[j][2] = REP_SUCCESS

---------------------------------------------------------------------------
(* Claims about concurrent sessions, under SpecMT. *)

\* C19: a step of one handler thread, whatever fails in it, leaves the
\* session of every other thread as it was (state, sockets, bytes relayed),
\* and only a step of the listener itself ends the accept loop.
C19_SessionsIsolated ==
    [][/\ \A u \in 1..Len(threads) : u # running' => threads'[u] = threads[u]
       /\ accepting' # accepting => running' = 0]_vars

\* C19's case: the first session failed on a malformed request and is
\* closed while the second relays, one chunk forwarded, and the accept loop
\* runs
C19_Witness ==
    /\ Len(threads) = 2
    /\ threads[1].parsed.raised
    /\ threads[1].pc = "done"
    /\ threads[2].pc = "relay"
    /\ threads[2].toRemote = <<1, 2>>
    /\ running = 1
    /\ accepting

---------------------------------------------------------------------------
(* Claims about the two servers side by side, under SpecPair. *)

\* a frame that is no request, its address type one of the three known:
\* shorter than 4 bytes, a version other than 5, or address or port bytes
\* missing
MalformedRequest(rx) ==
    /\ ~rx.err
    /\ LET d == rx.data
       IN  \/ Len(d) < 4
           \/ d[1] # SOCKS_VERSION
           \/ d[4] = ATYP_IPV4 /\ Len(d) < 10
           \/ d[4] = ATYP_DOMAIN /\ (Len(d) < 5 \/ Len(d) < 5 + d[5] + 2)
           \/ d[4] = ATYP_IPV6 /\ Len(d) < 22

\* the reply frames the session of socks5_server.py has sent
BareReplyFrames ==
    SelectSeq([i \in 1..Len(bare.sent) |-> bare.sent[i].bytes], LAMBDA b : Len(b) # 2)

\* C24: when the request frame is malformed in another way than by an
\* unsupported address type, the session, of either server, closes the
\* client socket and ends: no reply frame is sent, no connection attempted.
C24_MalformedRequestClosesSilently ==
    /\ (Called("parse_request") /\ MalformedRequest(rxRequest))
       => /\ pc = "done"
          /\ clientCloses >= 1
          /\ ReplyFrames = <<>>
          /\ connectState = "none"
    /\ (bare.reads = 2 /\ MalformedRequest(bare.rxRequest))
       => /\ bare.pc = "done"
          /\ bare.clientCloses >= 1
          /\ BareReplyFrames = <<>>
          /\ bare.connectState = "none"

\* C27: on every sequence of client frames the server of socks5_server.py
\* and the one of server.py with an empty credential store have sent the
\* same bytes, taken the same connect decision and closed the client socket
\* at the same point.
C27_BareEquivalentToModular ==
    /\ sent = bare.sent
    /\ connectState = bare.connectState
    /\ clientCloses = bare.clientCloses
    /\ pc = bare.pc

---------------------------------------------------------------------------
(* Claims about the listener's shutdown, under SpecShutdown. *)

C28_ReadsWaitWithoutTimeout ==
    [][\A t \in 1..Len(threads) :
          (threads[t].pc \in {"handshake", "request"} /\ threads'[t] # threads[t])
          => /\ running' = t
             /\ threads'[t].reads = threads[t].reads + 1
             /\ (IF threads[t].pc = "handshake" THEN threads'[t].rxGreeting
                 ELSE threads'[t].rxRequest) # RxTimeout]_vars

\* C28's case: the first session still waits for its request after the
\* relay of the second has ended on its timeout and the server was stopped
C28_Witness ==
    /\ Len(threads) = 2
    /\ threads[1].pc = "request"
    /\ threads[1].reads = 1
    /\ threads[2].relayEnd = "timeout"
    /\ threads[2].pc = "done"
    /\ serverSocket = "closed"
    /\ ~accepting
    /\ process = "running"

====
